---- MODULE Spec2Model ----
(***************************************************************************)
(* Model of the DICOM import run of ExploreASL_GUI                         *)
(* (src/src/xASL_GUI_Importer.py): the Importer_Worker runnables, the Qt   *)
(* event queue of the GUI thread that carries their signals, and the slots *)
(* of xASL_GUI_Importer that count the workers down and consolidate.       *)
(*                                                                         *)
(* Threads.  Every Importer_Worker runs on a pool thread.  Its signals     *)
(* object is created in __init__ on the GUI thread, so each emit from      *)
(* run() is a queued connection: the call is posted to the GUI thread's    *)
(* event queue and the slot runs later, in posting order.  The stop signal *)
(* is connected to a bound method of a QRunnable (no QObject), so it is a  *)
(* direct call: the GUI thread writes every worker's _terminated itself.   *)
(* A worker step is one read of _terminated, one converter call or one     *)
(* emit; the interpreter may switch threads between any two of them.       *)
(***************************************************************************)
EXTENDS Integers, Sequences, FiniteSets, TLC

\* ---------------------------------------------------------------- bounds
MaxSubjects == 3      \* subjects found by get_dicom_directories
MaxDirs     == 3      \* DICOM directories of all subjects together
MaxRuns     == 1      \* clicks on the run button in one behaviour
MaxRunsAgain == 2     \* the same, where one run follows another
PartMaxSubjects == 6  \* subjects of a tree handed to the partition alone
PartMaxLeaves   == 2  \* DICOM directories of one such subject

\* ------------------------------------------------------ program constants
MAXTHREADS == 4       \* NTHREADS = min([len(subject_dirs), 4])

Workers == 1..((IF MaxRuns > MaxRunsAgain THEN MaxRuns ELSE MaxRunsAgain) * MAXTHREADS)

VARIABLES
    subject_dirs,           \* what get_dicom_directories returns: a sequence of subjects, each a sequence of leaves
    levels,                 \* texts of the seven drop-enabled lineedits, "" when blank
    subject_regex,          \* self.subject_regex, "None" when unset
    scan_regex,             \* self.scan_regex, "None" when unset
    run_orders,             \* currentText of every combobox of cmb_runaliases_dict, in row order
    run_regex,              \* self.run_regex, "None" when unset
    run_dirs,               \* basenames the glob of get_nth_level_dirs finds where Run is dropped
    run_basenames,          \* keys of le_runaliases_dict and cmb_runaliases_dict, in row order
    le_runaliases,          \* text of every lineedit of le_runaliases_dict, in row order
    cmb_scanaliases,        \* currentText of every combobox of cmb_scanaliases_dict
    scan_aliases,           \* self.scan_aliases, "None" for None
    widgets_enabled,        \* enabled state set_widgets_on_or_off gave the input widgets
    plan,                   \* the dict get_import_parms built last (self.import_parms when not None)
    import_config,          \* what the last get_import_parms call did to ImportConfig.json
    parms_status,           \* how the last get_import_parms call ended
    n_import_workers,       \* self.n_import_workers
    import_parms,           \* self.import_parms is not None
    import_summaries,       \* self.import_summaries
    failed_runs,            \* self.failed_runs
    import_workers,         \* self.import_workers, as worker ids
    btn_run_importer,       \* enabled state of the run button
    btn_terminate_importer, \* enabled state of the stop button
    progbar_value,          \* self.progbar_import.value()
    progbar_maximum,        \* self.progbar_import.maximum()
    pc,                     \* position of each worker in Importer_Worker.run
    dcm_dirs,               \* worker.dcm_dirs
    dir_idx,                \* directories of dcm_dirs the for loop has consumed
    terminated,             \* worker._terminated
    worker_summaries,       \* worker.import_summaries
    worker_failed_runs,     \* worker.failed_runs
    queue,                  \* queued signal emissions waiting on the GUI thread
    written,                \* study output files written during the current run
    ledger,                 \* lines last written to Import_Failed_Imports.txt
    report,                 \* the message box that closed the run
    \* history, read by the properties only
    run_id,                 \* run_importer calls so far
    stop_requested,         \* signal_stop_import was emitted during the current run
    n_postprocessing,       \* import_postprocessing calls of the current run
    n_postterminate,        \* times slot_cleanup_postterminate passed its guard in the current run
    done_from,              \* workers whose signal_send_summaries was handled
    ack_from,               \* workers whose signal_confirm_terminate was handled
    ticks_from,             \* signal_update_progressbar emissions handled, per worker
    saw_terminated,         \* workers that have read _terminated as True
    study_dir_found,        \* import_postprocessing found the analysis directory
    \* merge_directories
    merge_root,             \* what is at each file path under merge_root
    merge_call,             \* the arguments of the merge_directories call that made the last step
    \* the directory structure fields
    le_rootdir,             \* self.le_rootdir.text() and self.rawdir, "" before a directory is chosen
    rawdir_exists,          \* Path(self.rawdir) is a directory at this moment
    globbed,                \* what the glob of line 331 finds at each depth below the raw directory
    visit_regex,            \* self.visit_regex, "None" when unset
    cmb_scanitems,          \* the items of every scan combobox after "Select an alias"
    drop_event              \* what the last step showed and handed to rexpy.Extractor

coord_vars == <<n_import_workers, import_parms, import_summaries, failed_runs,
                import_workers, btn_run_importer, widgets_enabled, btn_terminate_importer,
                progbar_value, progbar_maximum>>
worker_vars == <<pc, dcm_dirs, dir_idx, terminated, worker_summaries,
                 worker_failed_runs, saw_terminated>>
disk_vars == <<written, ledger, report, study_dir_found>>
hist_vars == <<run_id, stop_requested, n_postprocessing, n_postterminate,
               done_from, ack_from, ticks_from>>
merge_vars == <<merge_root, merge_call>>
drop_vars == <<le_rootdir, rawdir_exists, globbed, visit_regex, cmb_scanitems, drop_event>>
env_vars == <<subject_dirs, merge_vars, drop_vars>>
ui_vars == <<levels, subject_regex, scan_regex, run_orders, run_regex, run_dirs,
             run_basenames, le_runaliases, cmb_scanaliases, scan_aliases>>
plan_vars == <<plan, import_config, parms_status>>
vars == <<env_vars, ui_vars, plan_vars, coord_vars, worker_vars, queue, disk_vars,
          hist_vars>>

\* ---------------------------------------------------------------- helpers
RECURSIVE flatten(_)
flatten(ss) == IF ss = <<>> THEN <<>> ELSE Head(ss) \o flatten(Tail(ss))

Min(a, b) == IF a <= b THEN a ELSE b

Range(s) == {s[i] : i \in DOMAIN s}

\* divide with the len % n items left over after n equal parts dropped
divide_drops_remainder(n, seq) ==
    LET q == Len(seq) \div n
    IN  [i \in 1..n |-> SubSeq(seq, (i - 1) * q + 1, i * q)]

\* divide with the len % n items left over all given to the last part
divide_remainder_to_last(n, seq) ==
    LET q == Len(seq) \div n
    IN  [i \in 1..n |-> SubSeq(seq, (i - 1) * q + 1, IF i = n THEN Len(seq) ELSE i * q)]

\* more_itertools.distribute in the place of divide: item k goes to part k mod n
RECURSIVE every_nth(_, _, _)
every_nth(seq, k, n) ==
    IF k > Len(seq) THEN <<>> ELSE <<seq[k]>> \o every_nth(seq, k + n, n)

divide_deals_round_robin(n, seq) == [i \in 1..n |-> every_nth(seq, i, n)]

\* more_itertools.divide(n, seq): n consecutive parts, the first len % n one longer
divide(n, seq) ==
    LET q == Len(seq) \div n
        r == Len(seq) % n
        start(i) == (i - 1) * q + Min(i - 1, r)
        stop(i)  == i * q + Min(i, r)
    IN  [i \in 1..n |-> SubSeq(seq, start(i) + 1, stop(i))]

\* the trees get_dicom_directories can return: leaves are numbered in enumeration order
RECURSIVE number_leaves(_, _)
number_leaves(counts, first) ==
    IF counts = <<>> THEN <<>>
    ELSE <<[i \in 1..Head(counts) |-> first + i - 1]>>
         \o number_leaves(Tail(counts), first + Head(counts))

RECURSIVE sum(_)
sum(counts) == IF counts = <<>> THEN 0 ELSE Head(counts) + sum(Tail(counts))

Trees == { number_leaves(c, 1) :
             c \in { d \in UNION { [1..n -> 1..MaxDirs] : n \in 0..MaxSubjects } :
                        sum(d) <= MaxDirs } }

\* the trees handed to the partition alone: more subjects than worker threads
PartTrees == { number_leaves(c, 1) :
                 c \in UNION { [1..n -> 1..PartMaxLeaves] : n \in 0..PartMaxSubjects } }

Event(sig, w, payload) == [sig |-> sig, w |-> w, payload |-> payload]

\* ------------------------------------------------------- plan validation
RECURSIVE reversed(_)
reversed(s) == IF s = <<>> THEN <<>> ELSE reversed(Tail(s)) \o <<Head(s)>>

\* get_directory_structure, lines 604-628: walks the lineedits backwards.  The
\* branch for a blank below a non-blank subscripts self.progbar_import, a
\* QProgressBar, while building the arguments of robust_qmsg: it raises TypeError.
RECURSIVE walk_back(_, _, _)
walk_back(names, encountered_nonblank, valid_dirs) ==
    IF names = <<>> THEN [status |-> "walked", dirs |-> valid_dirs]
    ELSE IF Head(names) = "" /\ encountered_nonblank
         THEN [status |-> "raise", dirs |-> <<>>]
    ELSE IF Head(names) = ""
         THEN walk_back(Tail(names), encountered_nonblank, valid_dirs)
    ELSE walk_back(Tail(names), TRUE, Append(valid_dirs, Head(names)))

\* get_directory_structure without the reversal of line 626
get_directory_structure_not_reversed(dirnames) ==
    LET walked == walk_back(reversed(dirnames), FALSE, <<>>) IN
    IF walked.status = "raise" THEN walked
    ELSE IF "Subject" \notin Range(walked.dirs) \/ "Scan" \notin Range(walked.dirs)
         THEN [status |-> "False", dirs |-> <<>>]
    ELSE [status |-> "True", dirs |-> walked.dirs]

get_directory_structure(dirnames) ==
    LET walked == walk_back(reversed(dirnames), FALSE, <<>>) IN
    IF walked.status = "raise" THEN walked
    ELSE IF "Subject" \notin Range(walked.dirs) \/ "Scan" \notin Range(walked.dirs)
         THEN [status |-> "False", dirs |-> <<>>]
    ELSE [status |-> "True", dirs |-> reversed(walked.dirs)]

\* get_run_aliases, lines 650-658 and 680: its status
get_run_aliases_status(orders) ==
    IF Len(orders) = 0 THEN TRUE
    ELSE Cardinality(Range(orders)) = Len(orders)

\* the keys of cmb_scanaliases_dict (line 256) and the entry every scan
\* combobox starts with (line 263)
ScanRoles == {"ASL4D", "T1", "T2", "M0", "FLAIR"}

NoAlias == "Select an alias"

\* update_scan_aliases, lines 457-465, on the texts of the comboboxes
update_scan_aliases(cmbs) ==
    [key \in ScanRoles |-> IF cmbs[key] # NoAlias THEN cmbs[key] ELSE "None"]

\* get_scan_aliases, lines 630-639: the entries that are not None; the status
\* is True on every path
get_scan_aliases ==
    [status  |-> TRUE,
     aliases |-> [key \in {k \in ScanRoles : scan_aliases[k] # "None"} |-> scan_aliases[key]]]

\* str(num) and f"ASL_{num}" of lines 672 and 676
str(num) == <<"1", "2", "3", "4">>[num]

ASL_(num) == <<"ASL_1", "ASL_2", "ASL_3", "ASL_4">>[num]

\* list.index: the first position of x
index(seq, x) ==
    CHOOSE i \in DOMAIN seq : seq[i] = x /\ \A j \in DOMAIN seq : seq[j] = x => i <= j

\* get_run_aliases with the loop of lines 671-678 walking the rows instead of
\* the order numbers: the combobox of a row is not consulted
get_run_aliases_in_row_order ==
    IF Len(run_orders) = 0 THEN [status |-> TRUE, aliases |-> <<>>]
    ELSE IF ~get_run_aliases_status(run_orders) THEN [status |-> FALSE, aliases |-> <<>>]
    ELSE [status  |-> TRUE,
          aliases |-> [num \in 1..Len(run_orders) |->
                          <<run_basenames[num],
                            IF le_runaliases[num] = "" THEN ASL_(num)
                                                       ELSE le_runaliases[num]>>]]

\* get_run_aliases, lines 641-680: the OrderedDict as its (basename, alias)
\* items in insertion order
get_run_aliases ==
    IF Len(run_orders) = 0 THEN [status |-> TRUE, aliases |-> <<>>]
    ELSE IF ~get_run_aliases_status(run_orders) THEN [status |-> FALSE, aliases |-> <<>>]
    ELSE [status  |-> TRUE,
          aliases |-> [num \in 1..Len(run_orders) |->
                          LET idx == index(run_orders, str(num)) IN
                          <<run_basenames[idx],
                            IF le_runaliases[idx] = "" THEN ASL_(num)
                                                       ELSE le_runaliases[idx]>>]]

\* the dict of lines 698-702 (RawDir is the same in every state modelled)
import_parms_dict ==
    [Regex              |-> <<subject_regex, run_regex, scan_regex>>,
     DirectoryStructure |-> get_directory_structure(levels).dirs,
     ScanAliases        |-> get_scan_aliases.aliases,
     RunAliases         |-> get_run_aliases.aliases]

\* self.import_parms = None (line 869)
NoPlan ==
    [Regex              |-> <<>>,
     DirectoryStructure |-> <<>>,
     ScanAliases        |-> [key \in {} |-> "None"],
     RunAliases         |-> <<>>]

\* get_import_parms without `not runalias_status` in the test of line 689
get_import_parms_ignores_runalias_status(config_writable) ==
    LET dir == get_directory_structure(levels) IN
    IF dir.status = "raise" THEN "raise"
    ELSE IF \/ subject_regex = ""
            \/ scan_regex = ""
            \/ dir.status = "False"
         THEN "None"
    ELSE IF ~config_writable THEN "raise"
    ELSE "parms"

\* get_import_parms, lines 683-708: "raise" when an exception leaves it,
\* "None" when a check fails, "parms" when the plan is returned.
get_import_parms(config_writable) ==
    LET dir == get_directory_structure(levels) IN
    IF dir.status = "raise" THEN "raise"
    ELSE IF \/ subject_regex = ""
            \/ scan_regex = ""
            \/ dir.status = "False"
            \/ ~get_run_aliases_status(run_orders)
         THEN "None"
    ELSE IF ~config_writable THEN "raise"
    ELSE "parms"

\* what is_ready_import, lines 544-577, gives setEnabled of the run button
\* (the root directory exists and has no space in every state modelled)
ready(current_texts, cmbs, orders, aliases) ==
    LET cmb_texts == {cmbs[key] : key \in ScanRoles}
        current_run_aliases == SelectSeq(aliases, LAMBDA text : text # "")
    IN
    /\ "Subject" \in Range(current_texts)
    /\ "Scan" \in Range(current_texts)
    /\ ~(Cardinality(cmb_texts) <= 1)
    /\ ("Run" \in Range(current_texts) /\ Len(orders) > 0
          => /\ Cardinality(Range(current_run_aliases)) = Len(current_run_aliases)
             /\ Cardinality(Range(orders)) = Len(orders))

is_ready_import == ready(levels, cmb_scanaliases, run_orders, le_runaliases)

\* set_widgets_on_or_off, lines 579-595: the run button and the input widgets
\* (root directory, lineedits of the levels, scan comboboxes)
set_widgets_on_or_off(state) ==
    /\ btn_run_importer' = state
    /\ widgets_enabled' = state

\* ------------------------------------------------------ Importer_Worker
\* where the for loop of line 54 stands once `consumed` directories are behind it
after_dir(dirs, consumed) == IF consumed = Len(dirs) THEN "cleanup" ELSE "loop"

\* for dicom_dir in self.dcm_dirs / if not self._terminated  (lines 54-55):
\* one read of the flag per directory, before the converter is called
WorkerNextDir(w) ==
    /\ pc[w] = "loop"
    /\ IF ~terminated[w]
       THEN /\ pc' = [pc EXCEPT ![w] = "process"]
            /\ UNCHANGED <<dir_idx, saw_terminated>>
       ELSE /\ dir_idx' = [dir_idx EXCEPT ![w] = @ + 1]
            /\ saw_terminated' = saw_terminated \cup {w}
            /\ pc' = [pc EXCEPT ![w] = after_dir(dcm_dirs[w], dir_idx[w] + 1)]
    /\ UNCHANGED <<env_vars, ui_vars, plan_vars, coord_vars, dcm_dirs, terminated,
                   worker_summaries, worker_failed_runs, queue, disk_vars, hist_vars>>

\* WorkerProcessReturns without the emit of line 62: a failed conversion
\* moves the progress bar by nothing
WorkerProcessReturns_no_tick_on_failure(w, success) ==
    /\ pc[w] = "process"
    /\ LET dicom_dir == dcm_dirs[w][dir_idx[w] + 1] IN
       IF success
       THEN /\ worker_summaries' = [worker_summaries EXCEPT ![w] = Append(@, dicom_dir)]
            /\ queue' = Append(queue, Event("update_progressbar", w, <<>>))
            /\ UNCHANGED worker_failed_runs
       ELSE /\ worker_failed_runs' = [worker_failed_runs EXCEPT ![w] = Append(@, dicom_dir)]
            /\ UNCHANGED <<worker_summaries, queue>>
    /\ dir_idx' = [dir_idx EXCEPT ![w] = @ + 1]
    /\ pc' = [pc EXCEPT ![w] = after_dir(dcm_dirs[w], dir_idx[w] + 1)]
    /\ UNCHANGED <<env_vars, ui_vars, plan_vars, coord_vars, dcm_dirs, terminated,
                   saw_terminated, disk_vars, hist_vars>>

\* WorkerProcessReturns with a failed conversion leaving the for loop (a break
\* in the else branch of line 60): the rest of the batch is skipped
WorkerProcessReturns_failure_breaks(w, success) ==
    /\ pc[w] = "process"
    /\ LET dicom_dir == dcm_dirs[w][dir_idx[w] + 1] IN
       /\ IF success
          THEN /\ worker_summaries' = [worker_summaries EXCEPT ![w] = Append(@, dicom_dir)]
               /\ UNCHANGED worker_failed_runs
               /\ pc' = [pc EXCEPT ![w] = after_dir(dcm_dirs[w], dir_idx[w] + 1)]
          ELSE /\ worker_failed_runs' = [worker_failed_runs EXCEPT ![w] = Append(@, dicom_dir)]
               /\ UNCHANGED worker_summaries
               /\ pc' = [pc EXCEPT ![w] = "cleanup"]
       /\ queue' = Append(queue, Event("update_progressbar", w, <<>>))
    /\ dir_idx' = [dir_idx EXCEPT ![w] = @ + 1]
    /\ UNCHANGED <<env_vars, ui_vars, plan_vars, coord_vars, dcm_dirs, terminated,
                   saw_terminated, disk_vars, hist_vars>>

\* process_dcm_dir returns (lines 56-62): the result is recorded and one
\* progress tick is emitted on either branch
WorkerProcessReturns(w, success) ==
    /\ pc[w] = "process"
    /\ LET dicom_dir == dcm_dirs[w][dir_idx[w] + 1] IN
       /\ IF success
          THEN /\ worker_summaries' = [worker_summaries EXCEPT ![w] = Append(@, dicom_dir)]
               /\ UNCHANGED worker_failed_runs
          ELSE /\ worker_failed_runs' = [worker_failed_runs EXCEPT ![w] = Append(@, dicom_dir)]
               /\ UNCHANGED worker_summaries
       /\ queue' = Append(queue, Event("update_progressbar", w, <<>>))
    /\ dir_idx' = [dir_idx EXCEPT ![w] = @ + 1]
    /\ pc' = [pc EXCEPT ![w] = after_dir(dcm_dirs[w], dir_idx[w] + 1)]
    /\ UNCHANGED <<env_vars, ui_vars, plan_vars, coord_vars, dcm_dirs, terminated,
                   saw_terminated, disk_vars, hist_vars>>

\* WorkerCleanup with the flag not consulted at line 65: the worker always sends done
WorkerCleanup_ignores_flag(w) ==
    /\ pc[w] = "cleanup"
    /\ pc' = [pc EXCEPT ![w] = "send_summaries"]
    /\ UNCHANGED <<env_vars, ui_vars, plan_vars, coord_vars, dcm_dirs, dir_idx, terminated,
                   worker_summaries, worker_failed_runs, saw_terminated, queue,
                   disk_vars, hist_vars>>

\* if not self._terminated  (line 65): the read that picks done or cancel-ack
WorkerCleanup(w) ==
    /\ pc[w] = "cleanup"
    /\ IF ~terminated[w]
       THEN /\ pc' = [pc EXCEPT ![w] = "send_summaries"]
            /\ UNCHANGED saw_terminated
       ELSE /\ pc' = [pc EXCEPT ![w] = "confirm_terminate"]
            /\ saw_terminated' = saw_terminated \cup {w}
    /\ UNCHANGED <<env_vars, ui_vars, plan_vars, coord_vars, dcm_dirs, dir_idx, terminated,
                   worker_summaries, worker_failed_runs, queue, disk_vars, hist_vars>>

\* self.signals.signal_send_summaries.emit(self.import_summaries)  (line 68)
WorkerSendSummaries(w) ==
    /\ pc[w] = "send_summaries"
    /\ queue' = Append(queue, Event("send_summaries", w, worker_summaries[w]))
    /\ pc' = [pc EXCEPT ![w] = IF Len(worker_failed_runs[w]) > 0
                               THEN "send_errors" ELSE "finished"]
    /\ UNCHANGED <<env_vars, ui_vars, plan_vars, coord_vars, dcm_dirs, dir_idx, terminated,
                   worker_summaries, worker_failed_runs, saw_terminated,
                   disk_vars, hist_vars>>

\* self.signals.signal_send_errors.emit(self.failed_runs)  (lines 69-70)
WorkerSendErrors(w) ==
    /\ pc[w] = "send_errors"
    /\ queue' = Append(queue, Event("send_errors", w, worker_failed_runs[w]))
    /\ pc' = [pc EXCEPT ![w] = "finished"]
    /\ UNCHANGED <<env_vars, ui_vars, plan_vars, coord_vars, dcm_dirs, dir_idx, terminated,
                   worker_summaries, worker_failed_runs, saw_terminated,
                   disk_vars, hist_vars>>

\* self.signals.signal_confirm_terminate.emit()  (line 73)
WorkerConfirmTerminate(w) ==
    /\ pc[w] = "confirm_terminate"
    /\ queue' = Append(queue, Event("confirm_terminate", w, <<>>))
    /\ pc' = [pc EXCEPT ![w] = "finished"]
    /\ UNCHANGED <<env_vars, ui_vars, plan_vars, coord_vars, dcm_dirs, dir_idx, terminated,
                   worker_summaries, worker_failed_runs, saw_terminated,
                   disk_vars, hist_vars>>

\* slot_stop_import writing the negation of the flag: a second click resumes
slot_stop_import_toggles(w) == ~terminated[w]

\* slot_stop_import (lines 75-78), run by the click on the stop button for
\* every worker the signal was ever connected to (line 909)
slot_stop_import(w) == TRUE

\* the flags after signal_stop_import.emit(): the slot has run in every worker
\* created so far
flags_after_stop == [w \in Workers |-> IF pc[w] # "unborn" THEN slot_stop_import(w)
                                                           ELSE terminated[w]]

StopImport ==
    /\ btn_terminate_importer
    /\ terminated' = flags_after_stop
    /\ stop_requested' = TRUE
    /\ UNCHANGED <<env_vars, ui_vars, plan_vars, coord_vars, pc, dcm_dirs, dir_idx,
                   worker_summaries, worker_failed_runs, saw_terminated, queue,
                   disk_vars, run_id, n_postprocessing, n_postterminate,
                   done_from, ack_from, ticks_from>>

\* ------------------------------------------------- xASL_GUI_Importer slots
\* slot_update_progressbar (lines 713-715); QProgressBar.setValue ignores a
\* value outside [minimum, maximum]
slot_update_progressbar ==
    /\ progbar_value' = IF progbar_value + 1 <= progbar_maximum
                        THEN progbar_value + 1 ELSE progbar_value
    /\ UNCHANGED <<n_import_workers, import_parms, import_summaries, failed_runs,
                   import_workers, btn_run_importer, widgets_enabled, btn_terminate_importer,
                   progbar_maximum, disk_vars, n_postprocessing, n_postterminate>>

\* slot_update_failed_runs_log counting the worker down as the done slot does
slot_update_failed_runs_log_decrements(signalled_failed_runs) ==
    /\ failed_runs' = failed_runs \o signalled_failed_runs
    /\ n_import_workers' = n_import_workers - 1
    /\ UNCHANGED <<import_parms, import_summaries,
                   import_workers, btn_run_importer, widgets_enabled, btn_terminate_importer,
                   progbar_value, progbar_maximum, disk_vars,
                   n_postprocessing, n_postterminate>>

\* slot_update_failed_runs_log (lines 758-766)
slot_update_failed_runs_log(signalled_failed_runs) ==
    /\ failed_runs' = failed_runs \o signalled_failed_runs
    /\ UNCHANGED <<n_import_workers, import_parms, import_summaries,
                   import_workers, btn_run_importer, widgets_enabled, btn_terminate_importer,
                   progbar_value, progbar_maximum, disk_vars,
                   n_postprocessing, n_postterminate>>

\* import_postprocessing without the except branch of lines 802-806: the
\* PermissionError of the primary log path leaves the slot
import_postprocessing_no_backup_log ==
    /\ import_workers' = <<>>
    /\ set_widgets_on_or_off(TRUE)
    /\ btn_terminate_importer' = FALSE
    /\ n_postprocessing' = n_postprocessing + 1
    /\ \E analysis_dir_exists \in BOOLEAN, log_denied \in BOOLEAN, use_legacy \in BOOLEAN :
         /\ study_dir_found' = analysis_dir_exists
         /\ IF ~analysis_dir_exists
            THEN /\ report' = "StudyDirNeverMade"
                 /\ UNCHANGED <<written, ledger>>
            ELSE IF log_denied
            THEN UNCHANGED <<written, ledger, report>>
            ELSE LET bids == IF use_legacy THEN {}
                             ELSE {"dataset_description.json", ".bidsignore"}
                     base == written \cup {"Import_Log.log", "Import_Summary"} \cup bids
                 IN  IF Len(failed_runs) > 0
                     THEN /\ written' = base \cup {"Import_Failed_Imports.txt"}
                          /\ ledger' = failed_runs
                          /\ report' = "ImportErrors"
                     ELSE /\ written' = base
                          /\ report' = "Success"
                          /\ UNCHANGED ledger

\* import_postprocessing (lines 768-837).  The existence of the analysis
\* directory, a PermissionError on the primary log path and the state of the
\* legacy checkbox are read from the environment when it runs.  The temporary
\* converter logs it concatenates are not modelled.
import_postprocessing ==
    /\ import_workers' = <<>>
    /\ set_widgets_on_or_off(TRUE)
    /\ btn_terminate_importer' = FALSE
    /\ n_postprocessing' = n_postprocessing + 1
    /\ \E analysis_dir_exists \in BOOLEAN, log_denied \in BOOLEAN, use_legacy \in BOOLEAN :
         /\ study_dir_found' = analysis_dir_exists
         /\ IF ~analysis_dir_exists
            THEN /\ report' = "StudyDirNeverMade"
                 /\ UNCHANGED <<written, ledger>>
            ELSE LET log  == IF log_denied THEN "Import_Log_backup.log" ELSE "Import_Log.log"
                     bids == IF use_legacy THEN {}
                             ELSE {"dataset_description.json", ".bidsignore"}
                     base == written \cup {log, "Import_Summary"} \cup bids
                 IN  IF Len(failed_runs) > 0
                     THEN /\ written' = base \cup {"Import_Failed_Imports.txt"}
                          /\ ledger' = failed_runs
                          /\ report' = "ImportErrors"
                     ELSE /\ written' = base
                          /\ report' = "Success"
                          /\ UNCHANGED ledger

\* slot_is_ready_postprocessing with the guard of line 752 evaluated before the
\* decrement of line 749
slot_is_ready_postprocessing_checks_first(signalled_summaries) ==
    /\ import_summaries' = import_summaries \o signalled_summaries
    /\ n_import_workers' = n_import_workers - 1
    /\ UNCHANGED <<import_parms, failed_runs, progbar_value, progbar_maximum,
                   n_postterminate>>
    /\ IF n_import_workers > 0 \/ ~import_parms
       THEN UNCHANGED <<import_workers, btn_run_importer, widgets_enabled, btn_terminate_importer,
                        disk_vars, n_postprocessing>>
       ELSE import_postprocessing

\* slot_is_ready_postprocessing without the wait for the other workers
slot_is_ready_postprocessing_no_wait(signalled_summaries) ==
    /\ import_summaries' = import_summaries \o signalled_summaries
    /\ n_import_workers' = n_import_workers - 1
    /\ UNCHANGED <<import_parms, failed_runs, progbar_value, progbar_maximum,
                   n_postterminate>>
    /\ IF ~import_parms
       THEN UNCHANGED <<import_workers, btn_run_importer, widgets_enabled, btn_terminate_importer,
                        disk_vars, n_postprocessing>>
       ELSE import_postprocessing

\* slot_is_ready_postprocessing (lines 739-756)
slot_is_ready_postprocessing(signalled_summaries) ==
    /\ import_summaries' = import_summaries \o signalled_summaries
    /\ n_import_workers' = n_import_workers - 1
    /\ UNCHANGED <<import_parms, failed_runs, progbar_value, progbar_maximum,
                   n_postterminate>>
    /\ IF n_import_workers - 1 > 0 \/ ~import_parms
       THEN UNCHANGED <<import_workers, btn_run_importer, widgets_enabled, btn_terminate_importer,
                        disk_vars, n_postprocessing>>
       ELSE import_postprocessing

\* slot_cleanup_postterminate without the wait for the other workers
slot_cleanup_postterminate_no_wait ==
    /\ n_import_workers' = n_import_workers - 1
    /\ import_summaries' = <<>>
    /\ failed_runs' = <<>>
    /\ UNCHANGED <<import_parms, import_workers, progbar_value, progbar_maximum,
                   written, ledger, study_dir_found, n_postprocessing>>
    /\ IF ~import_parms
       THEN UNCHANGED <<btn_run_importer, widgets_enabled, btn_terminate_importer, report,
                        n_postterminate>>
       ELSE /\ set_widgets_on_or_off(TRUE)
            /\ btn_terminate_importer' = FALSE
            /\ n_postterminate' = n_postterminate + 1
            /\ \E analysis_dir_exists \in BOOLEAN :
                 report' = IF analysis_dir_exists THEN "CleanupImportPostTerm" ELSE report

\* slot_cleanup_postterminate ending, like the done slot, in import_postprocessing
slot_cleanup_postterminate_consolidates ==
    /\ n_import_workers' = n_import_workers - 1
    /\ import_summaries' = <<>>
    /\ failed_runs' = <<>>
    /\ UNCHANGED <<import_parms, progbar_value, progbar_maximum, n_postterminate>>
    /\ IF n_import_workers - 1 > 0 \/ ~import_parms
       THEN UNCHANGED <<import_workers, btn_run_importer, widgets_enabled, btn_terminate_importer,
                        disk_vars, n_postprocessing>>
       ELSE import_postprocessing

\* slot_cleanup_postterminate without lines 720-721: the summaries are kept
slot_cleanup_postterminate_keeps_summaries ==
    /\ n_import_workers' = n_import_workers - 1
    /\ failed_runs' = <<>>
    /\ UNCHANGED <<import_parms, import_workers, progbar_value, progbar_maximum,
                   written, ledger, study_dir_found, n_postprocessing,
                   import_summaries>>
    /\ IF n_import_workers - 1 > 0 \/ ~import_parms
       THEN UNCHANGED <<btn_run_importer, widgets_enabled, btn_terminate_importer, report,
                        n_postterminate>>
       ELSE /\ set_widgets_on_or_off(TRUE)
            /\ btn_terminate_importer' = FALSE
            /\ n_postterminate' = n_postterminate + 1
            /\ \E analysis_dir_exists \in BOOLEAN :
                 report' = IF analysis_dir_exists THEN "CleanupImportPostTerm" ELSE report

\* slot_cleanup_postterminate (lines 717-737)
slot_cleanup_postterminate ==
    /\ n_import_workers' = n_import_workers - 1
    /\ import_summaries' = <<>>
    /\ failed_runs' = <<>>
    /\ UNCHANGED <<import_parms, import_workers, progbar_value, progbar_maximum,
                   written, ledger, study_dir_found, n_postprocessing>>
    /\ IF n_import_workers - 1 > 0 \/ ~import_parms
       THEN UNCHANGED <<btn_run_importer, widgets_enabled, btn_terminate_importer, report,
                        n_postterminate>>
       ELSE /\ set_widgets_on_or_off(TRUE)
            /\ btn_terminate_importer' = FALSE
            /\ n_postterminate' = n_postterminate + 1
            /\ \E analysis_dir_exists \in BOOLEAN :
                 report' = IF analysis_dir_exists THEN "CleanupImportPostTerm" ELSE report

\* the GUI thread takes the oldest queued emission and runs the connected slot
\* (connections of lines 910-913)
Deliver(sig) ==
    /\ queue # <<>>
    /\ Head(queue).sig = sig
    /\ queue' = Tail(queue)
    /\ UNCHANGED <<env_vars, ui_vars, plan_vars, worker_vars, run_id, stop_requested>>

DeliverProgress ==
    /\ Deliver("update_progressbar")
    /\ slot_update_progressbar
    /\ ticks_from' = [ticks_from EXCEPT ![Head(queue).w] = @ + 1]
    /\ UNCHANGED <<done_from, ack_from>>

DeliverSummaries ==
    /\ Deliver("send_summaries")
    /\ slot_is_ready_postprocessing(Head(queue).payload)
    /\ done_from' = done_from \cup {Head(queue).w}
    /\ UNCHANGED <<ack_from, ticks_from>>

DeliverErrors ==
    /\ Deliver("send_errors")
    /\ slot_update_failed_runs_log(Head(queue).payload)
    /\ UNCHANGED <<done_from, ack_from, ticks_from>>

DeliverTerminate ==
    /\ Deliver("confirm_terminate")
    /\ slot_cleanup_postterminate
    /\ ack_from' = ack_from \cup {Head(queue).w}
    /\ UNCHANGED <<done_from, ticks_from>>

\* ------------------------------------------------------------ run_importer
\* a worker thread for every subject up to four, none left without a subject
NTHREADS_fixed_pool == MAXTHREADS

\* the troubleshooting line 901 left in: NTHREADS = 1
NTHREADS_troubleshooting == 1

\* NTHREADS = min([len(subject_dirs), 4])  (line 900)
NTHREADS == Min(Len(subject_dirs), MAXTHREADS)

\* run_importer (lines 863-923), started by a click on the enabled run button.
\* An exception (from get_import_parms, or from divide when there is no
\* subject) leaves the handler where it is raised.
call_get_import_parms(config_writable) ==
    LET parms == get_import_parms(config_writable) IN
    /\ parms_status' = parms
    /\ plan' = IF parms = "parms" THEN import_parms_dict ELSE NoPlan
    /\ import_config' = IF parms = "parms" THEN "written"
                         ELSE IF get_import_parms(TRUE) = "parms" THEN "denied"
                         ELSE "absent"

run_importer(config_writable) ==
    LET parms    == get_import_parms(config_writable)
        first    == run_id * MAXTHREADS
        new      == (first + 1)..(first + NTHREADS)
        parts    == divide(NTHREADS, subject_dirs)
    IN
    /\ import_summaries' = <<>>
    /\ failed_runs' = <<>>
    /\ call_get_import_parms(config_writable)
    /\ IF parms = "raise"
       THEN /\ n_import_workers' = 0
            /\ import_parms' = FALSE
            /\ import_workers' = <<>>
            /\ set_widgets_on_or_off(FALSE)
            /\ UNCHANGED <<btn_terminate_importer, progbar_value, progbar_maximum,
                           pc, dcm_dirs, dir_idx, terminated, worker_summaries,
                           worker_failed_runs>>
       ELSE IF parms = "None"
       THEN /\ n_import_workers' = 0
            /\ import_parms' = FALSE
            /\ import_workers' = <<>>
            /\ set_widgets_on_or_off(TRUE)
            /\ UNCHANGED <<btn_terminate_importer, progbar_value, progbar_maximum,
                           pc, dcm_dirs, dir_idx, terminated, worker_summaries,
                           worker_failed_runs>>
       ELSE IF NTHREADS < 1
       THEN /\ n_import_workers' = 0
            /\ import_parms' = TRUE
            /\ import_workers' = <<>>
            /\ set_widgets_on_or_off(FALSE)
            /\ progbar_value' = 0
            /\ progbar_maximum' = Len(flatten(subject_dirs))
            /\ UNCHANGED <<btn_terminate_importer,
                           pc, dcm_dirs, dir_idx, terminated, worker_summaries,
                           worker_failed_runs>>
       ELSE /\ n_import_workers' = NTHREADS
            /\ import_parms' = TRUE
            /\ import_workers' = [i \in 1..NTHREADS |-> first + i]
            /\ set_widgets_on_or_off(FALSE)
            /\ btn_terminate_importer' = TRUE
            /\ progbar_value' = 0
            /\ progbar_maximum' = Len(flatten(subject_dirs))
            /\ pc' = [w \in Workers |-> IF w \in new
                                          THEN after_dir(flatten(parts[w - first]), 0)
                                          ELSE pc[w]]
            /\ dcm_dirs' = [w \in Workers |-> IF w \in new THEN flatten(parts[w - first])
                                                ELSE dcm_dirs[w]]
            /\ dir_idx' = [w \in Workers |-> IF w \in new THEN 0 ELSE dir_idx[w]]
            /\ terminated' = [w \in Workers |-> IF w \in new THEN FALSE ELSE terminated[w]]
            /\ worker_summaries' = [w \in Workers |-> IF w \in new THEN <<>>
                                                        ELSE worker_summaries[w]]
            /\ worker_failed_runs' = [w \in Workers |-> IF w \in new THEN <<>>
                                                          ELSE worker_failed_runs[w]]

\* a click on the run button, the max_runs-th at most
RunImporterUpTo(max_runs) ==
    /\ btn_run_importer
    /\ run_id < max_runs
    /\ \E config_writable \in BOOLEAN : run_importer(config_writable)
    /\ run_id' = run_id + 1
    /\ stop_requested' = FALSE
    /\ n_postprocessing' = 0
    /\ n_postterminate' = 0
    /\ written' = {}
    /\ report' = "none"
    /\ study_dir_found' = FALSE
    /\ UNCHANGED <<env_vars, ui_vars, saw_terminated, queue, ledger,
                   done_from, ack_from, ticks_from>>

RunImporter == RunImporterUpTo(MaxRuns)

RunImporterAgain == RunImporterUpTo(MaxRunsAgain)

\* --------------------------------------------------------------- inputs
\* reset_run_aliases, lines 477-515: one row per basename in the order of
\* first occurrence (dict.fromkeys), blank lineedits, comboboxes at 1..k
RECURSIVE fromkeys(_, _)
fromkeys(basenames, seen) ==
    IF basenames = <<>> THEN <<>>
    ELSE IF Head(basenames) \in seen THEN fromkeys(Tail(basenames), seen)
    ELSE <<Head(basenames)>> \o fromkeys(Tail(basenames), seen \cup {Head(basenames)})

reset_run_aliases(basenames) ==
    LET keys == fromkeys(basenames, {}) IN
    [keys |-> keys,
     les  |-> [ii \in 1..Len(keys) |-> ""],
     cmbs |-> [ii \in 1..Len(keys) |-> str(ii)]]

\* everything a change of the inputs leaves alone
run_vars == <<env_vars, n_import_workers, import_summaries, failed_runs,
              import_workers, widgets_enabled, btn_terminate_importer, progbar_value,
              progbar_maximum, worker_vars, queue, disk_vars, hist_vars>>

\* texts typed into the lineedit of a run row (one of them has the form of a
\* default alias), and the basenames offered by
\* the scan comboboxes (the directories found at the Scan level)
RunAliasTexts == {"", "x", "ASL_2"}

ScanDirs == {"scan_a", "scan_b"}

\* list(set(basenames)), line 364: the distinct basenames in any order
list_of_set(basenames) ==
    LET S == Range(basenames) IN
    {s \in [1..Cardinality(S) -> S] : Range(s) = S}

\* the Run label is dropped on a lineedit that holds no other label and whose
\* level has directories: get_nth_level_dirs for "Run" (lines 361-365; no label
\* disappears, so check_if_reset_needed resets nothing), then
\* update_sibling_awareness and is_ready_import
DropRun ==
    /\ widgets_enabled
    /\ "Run" \notin Range(levels)
    /\ \E level \in DOMAIN levels, basenames \in list_of_set(run_dirs) :
          LET rows == reset_run_aliases(basenames) IN
          /\ levels[level] \in {"", "Dummy"}
          /\ levels' = [levels EXCEPT ![level] = "Run"]
          /\ run_regex' = "regex"
          /\ run_basenames' = rows.keys
          /\ le_runaliases' = rows.les
          /\ run_orders' = rows.cmbs
          /\ btn_run_importer' = ready(levels', cmb_scanaliases, run_orders', le_runaliases')
    /\ UNCHANGED <<subject_regex, scan_regex, run_dirs, cmb_scanaliases, scan_aliases,
                   import_parms, plan_vars, run_vars>>

\* another number is picked in the combobox of a run row: currentIndexChanged
\* calls is_ready_import (line 504); set_widgets_on_or_off never disables the rows
ChangeRunOrder ==
    /\ \E ii \in DOMAIN run_orders, num \in DOMAIN run_orders :
          /\ run_orders[ii] # str(num)
          /\ run_orders' = [run_orders EXCEPT ![ii] = str(num)]
    /\ btn_run_importer' = ready(levels, cmb_scanaliases, run_orders', le_runaliases)
    /\ UNCHANGED <<levels, subject_regex, scan_regex, run_regex, run_dirs, run_basenames,
                   le_runaliases, cmb_scanaliases, scan_aliases, import_parms, plan_vars,
                   run_vars>>

\* the lineedit of a run row is edited: no slot is connected to it (lines 505-506)
EditRunAlias ==
    /\ \E ii \in DOMAIN le_runaliases, text \in RunAliasTexts :
          /\ le_runaliases[ii] # text
          /\ le_runaliases' = [le_runaliases EXCEPT ![ii] = text]
    /\ UNCHANGED <<levels, subject_regex, scan_regex, run_regex, run_dirs, run_basenames,
                   run_orders, cmb_scanaliases, scan_aliases, btn_run_importer,
                   import_parms, plan_vars, run_vars>>

\* an entry is picked in a scan combobox: currentTextChanged calls
\* update_scan_aliases, then is_ready_import (lines 264-265)
SelectScanAlias ==
    /\ widgets_enabled
    /\ "Scan" \in Range(levels)
    /\ \E key \in ScanRoles, text \in {NoAlias} \cup ScanDirs :
          /\ cmb_scanaliases[key] # text
          /\ cmb_scanaliases' = [cmb_scanaliases EXCEPT ![key] = text]
    /\ scan_aliases' = update_scan_aliases(cmb_scanaliases')
    /\ btn_run_importer' = ready(levels, cmb_scanaliases', run_orders, le_runaliases)
    /\ UNCHANGED <<levels, subject_regex, scan_regex, run_regex, run_dirs, run_basenames,
                   run_orders, le_runaliases, import_parms, plan_vars, run_vars>>

\* self.import_parms = self.get_import_parms() (line 881) on its own
BuildPlan ==
    /\ \E config_writable \in BOOLEAN :
          /\ call_get_import_parms(config_writable)
          /\ import_parms' = IF get_import_parms(config_writable) = "raise" THEN import_parms
                              ELSE get_import_parms(config_writable) = "parms"
    /\ UNCHANGED <<ui_vars, btn_run_importer, run_vars>>

\* ------------------------------------------------------ merge_directories
\* file paths below a root, relative to it, and the roots with their files
MergePaths == {"f", "g"}
RootFiles == ("root_a" :> {"f"}) @@ ("root_b" :> {"f", "g"})
Roots == DOMAIN RootFiles

\* what can be at a path under merge_root
Absent == [kind |-> "absent", of |-> "none"]
Foreign == [kind |-> "file", of |-> "none"]
symlink_to(root) == [kind |-> "symlink", of |-> root]
copyfile(root) == [kind |-> "file", of |-> root]
exists(entry) == entry.kind # "absent"

\* the walk visits every file of the root once (iterdir); the paths differ,
\* so each path under merge_root is decided on its own
make_symlinks(tree, current_root, overwrite_links) ==
    [symlink_path \in MergePaths |->
        IF symlink_path \notin RootFiles[current_root] THEN tree[symlink_path]
        ELSE IF overwrite_links THEN symlink_to(current_root)
        ELSE IF ~exists(tree[symlink_path]) THEN symlink_to(current_root)
        ELSE tree[symlink_path]]

make_reallinks(tree, current_root, overwrite_links) ==
    [reallink_path \in MergePaths |->
        IF reallink_path \notin RootFiles[current_root] THEN tree[reallink_path]
        ELSE IF overwrite_links THEN copyfile(current_root)
        ELSE IF ~exists(tree[reallink_path]) THEN copyfile(current_root)
        ELSE tree[reallink_path]]

RECURSIVE merge_directories(_, _, _, _)
merge_directories(roots, tree, symbolic, overwrite) ==
    IF roots = <<>> THEN tree
    ELSE LET root == Head(roots)
             merged == IF symbolic
                       THEN make_symlinks(tree, root, symbolic)
                       ELSE make_reallinks(tree, root, symbolic)
         IN merge_directories(Tail(roots), merged, symbolic, overwrite)

NoCall == [roots |-> <<>>, symbolic |-> FALSE, overwrite |-> FALSE, called |-> FALSE]
RootLists == {<<>>} \cup {<<r>> : r \in Roots} \cup {<<r1, r2>> : r1, r2 \in Roots}

MergeDirectories ==
    \E roots \in RootLists, symbolic, overwrite \in BOOLEAN :
        /\ merge_root' = merge_directories(roots, merge_root, symbolic, overwrite)
        /\ merge_call' = [roots |-> roots, symbolic |-> symbolic, overwrite |-> overwrite,
                          called |-> TRUE]
        /\ UNCHANGED <<subject_dirs, drop_vars, ui_vars, plan_vars, coord_vars,
                       worker_vars, queue, disk_vars, hist_vars>>

\* something else puts a file of its own at a path under merge_root
CreateFile ==
    \E path \in MergePaths :
        /\ merge_root' = [merge_root EXCEPT ![path] = Foreign]
        /\ merge_call' = NoCall
        /\ UNCHANGED <<subject_dirs, drop_vars, ui_vars, plan_vars, coord_vars,
                       worker_vars, queue, disk_vars, hist_vars>>

\* no merge in sight
NoMerge ==
    /\ merge_root = [path \in MergePaths |-> Absent]
    /\ merge_call = NoCall

\* ------------------------------------------- the directory structure fields
\* the labels that can be dragged, and the lineedits a label is dropped on in
\* the behaviours explored (the first MaxSlot of the seven)
DragLabels == {"Subject", "Visit", "Run", "Scan", "Dummy"}
MaxSlot == 3
\* the scan comboboxes an entry is picked in
PickedRoles == {"ASL4D"}

\* what Path(self.rawdir).glob("*/..../*") yields at each depth, in the order
\* of the glob: one listing per raw directory that can be chosen. A name is
\* listed once for every parent it has; below the last depth nothing is found.
NoListing == [depth \in 1..7 |-> <<>>]
Filesystems ==
    { [depth \in 1..7 |->
          IF depth = 1 THEN <<"sub_1", "sub_2">>
          ELSE IF depth = 2 THEN <<"scan_b", "scan_a", "scan_b">>
          ELSE <<>>],
      [depth \in 1..7 |->
          IF depth = 1 THEN <<"sub_2", "sub_1">>
          ELSE <<>>] }

\* sorted(...) of line 370 on the names that occur
Alphabet == <<"scan_a", "scan_b", "sub_1", "sub_2">>
sorted(names) == SelectSeq(Alphabet, LAMBDA name : name \in names)

\* infer_regex, lines 521-531: extractor.results.rex[0] of rexpy, a library
\* outside the repository; the list it is handed is kept in drop_event
infer_regex(list_of_strings) == "regex"

NoEvent == [message |-> "", label |-> "", level |-> 0, examples |-> <<>>, inferred |-> FALSE]

\* the attributes and widgets get_nth_level_dirs and the resets work on
derived ==
    [subject_regex |-> subject_regex, visit_regex |-> visit_regex,
     run_regex |-> run_regex, scan_regex |-> scan_regex,
     run_basenames |-> run_basenames, le_runaliases |-> le_runaliases,
     run_orders |-> run_orders, cmb_scanaliases |-> cmb_scanaliases,
     cmb_scanitems |-> cmb_scanitems, scan_aliases |-> scan_aliases]

\* reset_scan_alias_cmbs, lines 436-455: update_scan_aliases is disconnected
\* while the comboboxes are refilled, so self.scan_aliases is not touched
reset_scan_alias_cmbs(d, basenames) ==
    [d EXCEPT !.cmb_scanaliases = [key \in ScanRoles |-> NoAlias],
              !.cmb_scanitems = basenames]

\* clear_run_alias_cmbs_and_les, lines 467-476
clear_run_alias_cmbs_and_les(d) ==
    [d EXCEPT !.run_basenames = <<>>, !.le_runaliases = <<>>, !.run_orders = <<>>]

\* check_if_reset_needed, lines 404-428
check_if_reset_needed(used_directories, d) ==
    LET d1 == IF "Subject" \notin Range(used_directories) /\ d.subject_regex # "None"
              THEN [d EXCEPT !.subject_regex = "None"] ELSE d
        d2 == IF "Visit" \notin Range(used_directories) /\ d1.visit_regex # "None"
              THEN [d1 EXCEPT !.visit_regex = "None"] ELSE d1
        d3 == IF "Run" \notin Range(used_directories) /\ d2.run_regex # "None"
              THEN clear_run_alias_cmbs_and_les([d2 EXCEPT !.run_regex = "None"]) ELSE d2
    IN  IF "Scan" \notin Range(used_directories) /\ d3.scan_regex # "None"
        THEN reset_scan_alias_cmbs(
                 [d3 EXCEPT !.scan_regex = "None",
                            !.scan_aliases = [key \in ScanRoles |-> "None"]], <<>>)
        ELSE d3

\* the requirements of lines 316-320
rawdir_usable == le_rootdir # "" /\ rawdir_exists

\* get_nth_level_dirs, lines 310-380, called for the text a lineedit has just
\* taken; texts are the seven lineedits with that text in place, distinct is
\* list(set(basenames)) in the order the set gives. The result holds the
\* lineedits and the derived state it leaves, and what the step showed.
get_nth_level_dirs(dir_type, level, texts, distinct, d) ==
    LET basenames == globbed[level]
        reset == check_if_reset_needed(texts, d)
        cleared == [texts EXCEPT ![level] = ""]
        rows == reset_run_aliases(distinct)
    IN
    IF ~rawdir_usable THEN [texts |-> texts, d |-> d, event |-> NoEvent]
    ELSE IF dir_type = "" THEN [texts |-> texts, d |-> reset, event |-> NoEvent]
    ELSE IF basenames = <<>>
         \* zip(*[]) cannot be unpacked: ValueError, the message, and clear()
         \* calls get_nth_level_dirs('', level) from inside
         THEN [texts |-> cleared, d |-> check_if_reset_needed(cleared, reset),
               event |-> [NoEvent EXCEPT !.message = "ImpossibleDirDepth", !.label = dir_type,
                                         !.level = level]]
    ELSE IF dir_type = "Subject"
         THEN [texts |-> texts,
               d |-> [reset EXCEPT !.subject_regex = infer_regex(basenames)],
               event |-> [NoEvent EXCEPT !.examples = basenames, !.inferred = TRUE]]
    ELSE IF dir_type = "Visit"
         THEN [texts |-> texts,
               d |-> [reset EXCEPT !.visit_regex = infer_regex(basenames)],
               event |-> [NoEvent EXCEPT !.examples = basenames, !.inferred = TRUE]]
    ELSE IF dir_type = "Run"
         THEN [texts |-> texts,
               d |-> [reset EXCEPT !.run_regex = infer_regex(distinct),
                                   !.run_basenames = rows.keys,
                                   !.le_runaliases = rows.les,
                                   !.run_orders = rows.cmbs],
               event |-> [NoEvent EXCEPT !.examples = distinct, !.inferred = TRUE]]
    ELSE IF dir_type = "Scan"
         THEN [texts |-> texts,
               d |-> reset_scan_alias_cmbs([reset EXCEPT !.scan_regex = infer_regex(distinct)],
                                           sorted(Range(basenames))),
               event |-> [NoEvent EXCEPT !.examples = distinct, !.inferred = TRUE]]
    ELSE [texts |-> texts, d |-> reset, event |-> NoEvent]

\* is_ready_import, lines 544-577, with its first requirement
is_ready_import_at(rootdir, root_exists, current_texts, d) ==
    /\ rootdir # ""
    /\ root_exists
    /\ ready(current_texts, d.cmb_scanaliases, d.run_orders, d.le_runaliases)

\* the derived state takes the values of d
becomes(d) ==
    /\ subject_regex' = d.subject_regex
    /\ visit_regex' = d.visit_regex
    /\ run_regex' = d.run_regex
    /\ scan_regex' = d.scan_regex
    /\ run_basenames' = d.run_basenames
    /\ le_runaliases' = d.le_runaliases
    /\ run_orders' = d.run_orders
    /\ cmb_scanaliases' = d.cmb_scanaliases
    /\ cmb_scanitems' = d.cmb_scanitems
    /\ scan_aliases' = d.scan_aliases

\* everything the directory structure fields leave alone
window_vars == <<subject_dirs, merge_vars, run_dirs, plan_vars, n_import_workers,
                 import_parms, import_summaries, failed_runs, import_workers,
                 widgets_enabled, btn_terminate_importer, progbar_value, progbar_maximum,
                 worker_vars, queue, disk_vars, hist_vars>>

drop_accepted_ignores_siblings(text, sibling_awareness) ==
    le_rootdir # "" \/ text = "Dummy"

\* the test of dragEnterEvent, dragMoveEvent and dropEvent, lines 998-1020;
\* sibling_awareness holds the texts of the seven lineedits (lines 533-541)
drop_accepted(text, sibling_awareness) ==
    (text \notin Range(sibling_awareness) /\ le_rootdir # "") \/ text = "Dummy"

\* a label is dropped on a lineedit: setText, then get_nth_level_dirs,
\* update_sibling_awareness and is_ready_import in the order of lines 223-225
DropLabel ==
    /\ widgets_enabled
    /\ \E label \in DragLabels, level \in 1..MaxSlot :
          /\ drop_accepted(label, levels)
          /\ levels[level] # label
          /\ \E distinct \in list_of_set(globbed[level]) :
                LET texts == [levels EXCEPT ![level] = label]
                    got == get_nth_level_dirs(label, level, texts, distinct, derived)
                IN  /\ levels' = got.texts
                    /\ becomes(got.d)
                    /\ drop_event' = got.event
                    /\ btn_run_importer' = is_ready_import_at(le_rootdir, rawdir_exists, got.texts, got.d)
    /\ UNCHANGED <<le_rootdir, rawdir_exists, globbed, window_vars>>

\* clear_receivers, lines 430-435: clear() on the lineedits one after the
\* other, each one that held a text calling get_nth_level_dirs('', level)
RECURSIVE clear_from(_, _, _)
clear_from(level, texts, d) ==
    IF level > 7 THEN d
    ELSE IF texts[level] = "" THEN clear_from(level + 1, texts, d)
    ELSE LET cleared == [texts EXCEPT ![level] = ""] IN
         clear_from(level + 1, cleared,
                    get_nth_level_dirs("", level, cleared, <<>>, d).d)

NoLabels == [level \in 1..7 |-> ""]

\* the button "Clear the fields" (line 243)
ClearReceivers ==
    /\ widgets_enabled
    /\ levels # NoLabels
    /\ levels' = NoLabels
    /\ becomes(clear_from(1, levels, derived))
    /\ drop_event' = NoEvent
    /\ btn_run_importer' = is_ready_import_at(le_rootdir, rawdir_exists, NoLabels,
                                              clear_from(1, levels, derived))
    /\ UNCHANGED <<le_rootdir, rawdir_exists, globbed, window_vars>>

\* clear_widgets, lines 386-399
clear_widgets(d) ==
    reset_scan_alias_cmbs(
        clear_run_alias_cmbs_and_les(
            [d EXCEPT !.subject_regex = "None", !.visit_regex = "None",
                      !.run_regex = "None", !.scan_regex = "None",
                      !.scan_aliases = [key \in ScanRoles |-> "None"]]), <<>>)

\* another raw directory is chosen (lines 189-191): set_rootdir_variable,
\* clear_widgets, is_ready_import. The directory exists when it is chosen
\* and has a listing of its own.
ChangeRootDir ==
    /\ widgets_enabled
    /\ \E listing \in Filesystems :
          /\ listing # globbed
          /\ globbed' = listing
    /\ le_rootdir' = "raw"
    /\ rawdir_exists' = TRUE
    /\ levels' = NoLabels
    /\ becomes(clear_widgets(derived))
    /\ drop_event' = NoEvent
    /\ btn_run_importer' = is_ready_import_at("raw", TRUE, NoLabels, clear_widgets(derived))
    /\ UNCHANGED window_vars

\* the raw directory is removed or its drive is taken away, and comes back
RawDirVanishes ==
    /\ le_rootdir # ""
    /\ rawdir_exists
    /\ rawdir_exists' = FALSE
    /\ drop_event' = NoEvent
    /\ UNCHANGED <<le_rootdir, globbed, ui_vars, visit_regex, cmb_scanitems,
                   btn_run_importer, window_vars>>

RawDirReturns ==
    /\ le_rootdir # ""
    /\ ~rawdir_exists
    /\ rawdir_exists' = TRUE
    /\ drop_event' = NoEvent
    /\ UNCHANGED <<le_rootdir, globbed, ui_vars, visit_regex, cmb_scanitems,
                   btn_run_importer, window_vars>>

\* an entry of a scan combobox is picked: update_scan_aliases, then
\* is_ready_import (lines 264-265)
PickScanAlias ==
    /\ widgets_enabled
    /\ \E key \in PickedRoles, text \in {NoAlias} \cup Range(cmb_scanitems) :
          /\ cmb_scanaliases[key] # text
          /\ cmb_scanaliases' = [cmb_scanaliases EXCEPT ![key] = text]
    /\ scan_aliases' = update_scan_aliases(cmb_scanaliases')
    /\ drop_event' = NoEvent
    /\ btn_run_importer' = is_ready_import_at(le_rootdir, rawdir_exists, levels,
                                              [derived EXCEPT !.cmb_scanaliases = cmb_scanaliases'])
    /\ UNCHANGED <<levels, subject_regex, visit_regex, scan_regex, run_regex, run_basenames,
                   run_orders, le_runaliases, cmb_scanitems, le_rootdir, rawdir_exists,
                   globbed, window_vars>>

\* the raw directory is in place and nothing was dropped by the step before
NoDrop ==
    /\ le_rootdir = "raw"
    /\ rawdir_exists = TRUE
    /\ globbed = NoListing
    /\ visit_regex = IF "Visit" \in Range(levels) THEN "regex" ELSE "None"
    /\ cmb_scanitems = IF "Scan" \in Range(levels) THEN sorted(ScanDirs) ELSE <<>>
    /\ drop_event = NoEvent

\* ----------------------------------------------------------- specification
\* the lineedits as the user can have left them when the run button is enabled
InitLevels == { <<"Subject", "Visit", "Run", "Scan", "", "", "">>,
                <<"Subject", "Scan", "", "", "", "", "">>,
                <<"Subject", "", "Scan", "", "", "", "">> }

\* everything but the user's inputs, as __init__ leaves it
InitWindow(trees) ==
    /\ subject_dirs \in trees
    /\ widgets_enabled = TRUE
    /\ plan = NoPlan
    /\ import_config = "absent"
    /\ parms_status = "not called"
    /\ n_import_workers = 0
    /\ import_parms = FALSE
    /\ import_summaries = <<>>
    /\ failed_runs = <<>>
    /\ import_workers = <<>>
    /\ btn_run_importer = is_ready_import
    /\ btn_terminate_importer = FALSE
    /\ progbar_value = 0
    /\ progbar_maximum = 1
    /\ pc = [w \in Workers |-> "unborn"]
    /\ dcm_dirs = [w \in Workers |-> <<>>]
    /\ dir_idx = [w \in Workers |-> 0]
    /\ terminated = [w \in Workers |-> FALSE]
    /\ worker_summaries = [w \in Workers |-> <<>>]
    /\ worker_failed_runs = [w \in Workers |-> <<>>]
    /\ queue = <<>>
    /\ written = {}
    /\ ledger = <<>>
    /\ report = "none"
    /\ run_id = 0
    /\ stop_requested = FALSE
    /\ n_postprocessing = 0
    /\ n_postterminate = 0
    /\ done_from = {}
    /\ ack_from = {}
    /\ ticks_from = [w \in Workers |-> 0]
    /\ saw_terminated = {}
    /\ study_dir_found = FALSE

\* the inputs after the labels of a template were dropped: the regexes are
\* inferred, one run directory is registered, the ASL scan is selected
InitUI(templates) ==
    /\ levels \in templates
    /\ subject_regex = "regex"
    /\ scan_regex = "regex"
    /\ run_regex = IF "Run" \in Range(levels) THEN "regex" ELSE "None"
    /\ run_dirs = <<"run_a">>
    /\ LET rows == reset_run_aliases(IF "Run" \in Range(levels) THEN run_dirs ELSE <<>>) IN
        /\ run_basenames = rows.keys
        /\ le_runaliases = rows.les
        /\ run_orders = rows.cmbs
    /\ cmb_scanaliases = [key \in ScanRoles |-> IF key = "ASL4D" THEN "scan_a" ELSE NoAlias]
    /\ scan_aliases = update_scan_aliases(cmb_scanaliases)

InitRun(trees) == InitWindow(trees) /\ NoMerge /\ NoDrop

InitWith(trees, templates) == InitUI(templates) /\ InitRun(trees)

Init == InitWith(Trees, InitLevels)

Next ==
    \/ RunImporter
    \/ StopImport
    \/ \E w \in Workers : WorkerNextDir(w)
    \/ \E w \in Workers, success \in BOOLEAN : WorkerProcessReturns(w, success)
    \/ \E w \in Workers : WorkerCleanup(w)
    \/ \E w \in Workers : WorkerSendSummaries(w)
    \/ \E w \in Workers : WorkerSendErrors(w)
    \/ \E w \in Workers : WorkerConfirmTerminate(w)
    \/ DeliverProgress
    \/ DeliverSummaries
    \/ DeliverErrors
    \/ DeliverTerminate

Spec == Init /\ [][Next]_vars

\* one run after another over one subject with one DICOM directory
AgainInit == InitWith({<<<<1>>>>}, {<<"Subject", "Visit", "Run", "Scan", "", "", "">>})

AgainNext ==
    \/ RunImporterAgain
    \/ StopImport
    \/ \E w \in Workers : WorkerNextDir(w)
    \/ \E w \in Workers, success \in BOOLEAN : WorkerProcessReturns(w, success)
    \/ \E w \in Workers : WorkerCleanup(w)
    \/ \E w \in Workers : WorkerSendSummaries(w)
    \/ \E w \in Workers : WorkerSendErrors(w)
    \/ \E w \in Workers : WorkerConfirmTerminate(w)
    \/ DeliverProgress
    \/ DeliverSummaries
    \/ DeliverErrors
    \/ DeliverTerminate

SpecAgain == AgainInit /\ [][AgainNext]_vars

\* the partition of run_importer alone, lines 888-915: the run button is
\* clicked on a tree of up to PartMaxSubjects subjects and the workers are
\* created; none of them is followed further
PartInit == InitWith(PartTrees, {<<"Subject", "Visit", "Run", "Scan", "", "", "">>})

PartNext == RunImporter

SpecPartition == PartInit /\ [][PartNext]_vars

\* the tree of two subjects S1 and S2, each with v1/run1/ASL4D and v1/run1/T1,
\* as get_dicom_directories can return it: one directory per subject (the
\* run directories) or the two scan directories of each subject
P7Trees == { <<<<1>>, <<2>>>>, <<<<1, 2>>, <<3, 4>>>> }

P7Init == InitWith(P7Trees, {<<"Subject", "Visit", "Run", "Scan", "", "", "">>})

SpecP7 == P7Init /\ [][Next]_vars

\* get_import_parms over the inputs the window can hold.  The labels (lines
\* 202-206) are dropped on the seven lineedits, each label but Dummy at most
\* once (dragEnterEvent, lines 999-1003).
Labels == {"Subject", "Visit", "Run", "Scan"}

MaxDummy == 1

MaxRunDirs == 2

Templates ==
    {t \in [1..7 -> Labels \cup {"Dummy", ""}] :
        /\ \A label \in Labels : Cardinality({i \in 1..7 : t[i] = label}) <= 1
        /\ Cardinality({i \in 1..7 : t[i] = "Dummy"}) <= MaxDummy}

\* what the glob of line 331 can find at a level: up to MaxRunDirs directories
\* under two names (the same name under several parents)
RunListings ==
    UNION {[1..n -> {"run_a", "run_b"}] : n \in 1..MaxRunDirs}

\* what a regex attribute holds while its label is in a lineedit: the string
\* infer_regex returned (rexpy, any string, the empty one included as line 689
\* expects), or still None when get_nth_level_dirs returned at lines 316-320
\* because the raw directory was not there at the time of the drop
RegexValues == {"None", "", "regex"}

PlanInit ==
    /\ \/ InitUI(Templates)
       \/ /\ levels = <<"Subject", "Visit", "", "Scan", "", "", "">>
          /\ subject_regex \in RegexValues
          /\ scan_regex \in RegexValues
          /\ run_regex = "None"
          /\ run_dirs \in RunListings
          /\ run_basenames = <<>>
          /\ le_runaliases = <<>>
          /\ run_orders = <<>>
          /\ cmb_scanaliases = [key \in ScanRoles |-> IF key = "ASL4D" THEN "scan_a"
                                                        ELSE NoAlias]
          /\ scan_aliases = update_scan_aliases(cmb_scanaliases)
    /\ InitRun({<<<<1>>>>})

PlanNext ==
    \/ DropRun
    \/ ChangeRunOrder
    \/ EditRunAlias
    \/ BuildPlan

SpecPlan == PlanInit /\ [][PlanNext]_vars

\* the window after Subject, Visit, Run and Scan were dropped on the first
\* four lineedits of a raw directory with two run directories: two run rows,
\* every scan combobox at "Select an alias"; then aliases, numbers and scans
\* are chosen and the run button is clicked
UIInit ==
    /\ levels = <<"Subject", "Visit", "Run", "Scan", "", "", "">>
    /\ subject_regex = "regex"
    /\ scan_regex = "regex"
    /\ run_regex = "regex"
    /\ run_dirs = <<"run_a", "run_b">>
    /\ run_basenames = reset_run_aliases(run_dirs).keys
    /\ le_runaliases = reset_run_aliases(run_dirs).les
    /\ run_orders = reset_run_aliases(run_dirs).cmbs
    /\ cmb_scanaliases = [key \in ScanRoles |-> NoAlias]
    /\ scan_aliases = update_scan_aliases(cmb_scanaliases)
    /\ InitRun({<<<<1>>>>})

UINext ==
    \/ ChangeRunOrder
    \/ EditRunAlias
    \/ SelectScanAlias
    \/ RunImporter

SpecUI == UIInit /\ [][UINext]_vars

\* ------------------------------------------------------------- properties
\* the workers run_importer created for the current run
spawned == {w \in Workers : pc[w] # "unborn" /\ w > (run_id - 1) * MAXTHREADS}

\* the worker has emitted the signal, delivered or still queued
emitted(w, sig) == \E i \in DOMAIN queue : queue[i].w = w /\ queue[i].sig = sig
sent_done(w) == w \in done_from \/ emitted(w, "send_summaries")
sent_ack(w)  == w \in ack_from \/ emitted(w, "confirm_terminate")

any_failed == \E w \in spawned : worker_failed_runs[w] # <<>>

C4_CleanCancellation ==
    (stop_requested /\ spawned # {} /\ spawned \subseteq ack_from) => written = {}

C4_Witness ==
    /\ stop_requested
    /\ Cardinality(spawned) = 2
    /\ spawned \subseteq ack_from
    /\ n_postterminate = 1
    /\ \E w \in spawned : worker_summaries[w] # <<>>

\* C5 (as claimed): once the stop button was pressed in a run, that run writes
\* no study output file: no done event leads to the normal consolidation.
C5_NoNormalConsolidationAfterStop == stop_requested => written = {}

\* C6: when the event that brings n_import_workers to zero is a cancel-ack,
\* both accumulators are empty after it, summaries of workers that had reported
\* done included, and no study output file has been or is written.
C6_AckAtZeroDiscards ==
    [][ ( /\ queue # <<>>
          /\ Head(queue).sig = "confirm_terminate"
          /\ queue' = Tail(queue)
          /\ n_import_workers' = 0 )
        => ( /\ import_summaries' = <<>>
             /\ failed_runs' = <<>>
             /\ written = {}
             /\ written' = {} ) ]_vars

C6_Witness ==
    /\ n_postterminate = 1
    /\ n_import_workers = 0
    /\ \E w \in spawned \cap done_from : worker_summaries[w] # <<>>
    /\ import_summaries = <<>>

\* C7 (as claimed): when a run that was not stopped consolidates and finds the
\* study directory, it writes the failure ledger and reports the import errors
\* if a conversion of any worker failed, and reports success only if none did.
C7_FailuresReported ==
    (n_postprocessing = 1 /\ ~stop_requested /\ study_dir_found) =>
        /\ any_failed => ("Import_Failed_Imports.txt" \in written /\ report = "ImportErrors")
        /\ report = "Success" => ~any_failed

\* C8 (as claimed): when a run that was not stopped consolidates and finds the
\* study directory, every failed directory of every worker is a line of the
\* failure ledger it wrote.
C8_LedgerHasEveryFailure ==
    (n_postprocessing = 1 /\ ~stop_requested /\ study_dir_found) =>
        \A w \in spawned : \A d \in Range(worker_failed_runs[w]) :
            "Import_Failed_Imports.txt" \in written /\ d \in Range(ledger)

\* C9 (as claimed): once a run has consolidated, no event of it changes
\* import_summaries or failed_runs.
C9_OutcomeFrozen ==
    [][ (n_postprocessing + n_postterminate > 0 /\ run_id' = run_id)
        => (import_summaries' = import_summaries /\ failed_runs' = failed_runs) ]_vars

\* C10: a worker that has read _terminated as True is in no later converter
\* call, records no further result and ends with a cancel-ack; a worker that
\* sends done never read the flag as True; no worker sends both or either
\* twice, and a finished worker has sent one of them.  The flag is read only
\* between directories: a converter call never ends with the flag newly seen.
C10_WorkerState ==
    \A w \in Workers :
        /\ w \in saw_terminated => pc[w] \in {"loop", "cleanup", "confirm_terminate", "finished"}
        /\ w \in saw_terminated => ~sent_done(w)
        /\ ~(sent_done(w) /\ sent_ack(w))
        /\ Cardinality({i \in DOMAIN queue : queue[i].w = w /\
                          queue[i].sig \in {"send_summaries", "confirm_terminate"}})
             + (IF w \in done_from \cup ack_from THEN 1 ELSE 0) <= 1
        /\ pc[w] = "finished" => (sent_done(w) \/ sent_ack(w))
        /\ (pc[w] = "finished" /\ w \in saw_terminated) => sent_ack(w)

C10_WorkerStep ==
    \A w \in Workers :
        /\ (w \in saw_terminated /\ pc[w] # "unborn") =>
              /\ worker_summaries'[w] = worker_summaries[w]
              /\ worker_failed_runs'[w] = worker_failed_runs[w]
              /\ pc'[w] # "process"
        /\ pc[w] = "process" => (w \in saw_terminated' <=> w \in saw_terminated)

\* C10: the state and the step conditions above hold of every worker throughout
\* every run, stopped or not.
C10_WorkerCancellation == []C10_WorkerState /\ [][C10_WorkerStep]_vars

C10_Witness ==
    \E w \in Workers :
        /\ pc[w] = "finished"
        /\ w \in saw_terminated
        /\ Len(dcm_dirs[w]) = 2
        /\ Len(worker_summaries[w]) + Len(worker_failed_runs[w]) = 1
        /\ w \in ack_from

\* the directories of a batch are in increasing order of enumeration
increasing(s) == \A i, j \in DOMAIN s : i < j => s[i] < s[j]

\* C11: a failed conversion is recorded as a failure of its directory and stops
\* nothing: a worker that has not seen the stop flag has passed every directory
\* behind its loop position to the converter, in batch order, each recorded once
\* as a summary or as a failure; it leaves the loop only when the batch is
\* used up, and the done it then sends carries the summaries of the
\* directories that succeeded.
C11_FailureDoesNotStopWorker ==
    /\ \A w \in Workers :
         /\ pc[w] \in {"cleanup", "send_summaries", "send_errors",
                       "confirm_terminate", "finished"}
               => dir_idx[w] = Len(dcm_dirs[w])
         /\ w \notin saw_terminated =>
               /\ Len(worker_summaries[w]) + Len(worker_failed_runs[w]) = dir_idx[w]
               /\ Range(worker_summaries[w]) \cup Range(worker_failed_runs[w])
                     = Range(SubSeq(dcm_dirs[w], 1, dir_idx[w]))
               /\ increasing(worker_summaries[w])
               /\ increasing(worker_failed_runs[w])
               /\ pc[w] = "finished" => sent_done(w)
    /\ \A i \in DOMAIN queue :
         queue[i].sig = "send_summaries" =>
             queue[i].payload = worker_summaries[queue[i].w]

C11_Witness ==
    \E w \in Workers :
        /\ Len(dcm_dirs[w]) = 3
        /\ worker_failed_runs[w] = <<dcm_dirs[w][1]>>
        /\ worker_summaries[w] = <<dcm_dirs[w][2], dcm_dirs[w][3]>>
        /\ w \notin saw_terminated
        /\ w \in done_from

\* progress ticks of a worker: handled by the GUI thread or still queued
ticks_emitted(w) ==
    ticks_from[w]
      + Cardinality({i \in DOMAIN queue : queue[i].w = w /\ queue[i].sig = "update_progressbar"})

\* C12: at every moment a worker has emitted as many progress ticks as
\* converter calls have returned to it, successes and failures alike: one tick
\* per processed directory, none for a directory whose call has not returned
\* and none for a directory skipped after a stop.
C12_OneTickPerProcessedDir ==
    \A w \in Workers :
        ticks_emitted(w) = Len(worker_summaries[w]) + Len(worker_failed_runs[w])

C12_Witness ==
    \E w \in Workers :
        /\ Len(worker_summaries[w]) = 1
        /\ Len(worker_failed_runs[w]) = 1
        /\ pc[w] = "process"
        /\ ticks_from[w] = 1
        /\ ticks_emitted(w) = 2

\* C13: once the stop button was pressed in a run, pressing it again changes
\* nothing: the flags a further signal_stop_import.emit() writes are the flags
\* the workers already have, and the click touches no other state (counter,
\* accumulators, queue), so every continuation, the consolidation included, is
\* the one of a single press.
C13_StopIsIdempotent == stop_requested => flags_after_stop = terminated

C13_Witness ==
    /\ stop_requested
    /\ btn_terminate_importer
    /\ Cardinality(spawned) = 2
    /\ \E w \in spawned : pc[w] = "process" /\ terminated[w]
    /\ ENABLED StopImport

leaves == flatten(subject_dirs)

\* the batches of the workers of the current run, in the order of creation
batches == [i \in DOMAIN import_workers |-> dcm_dirs[import_workers[i]]]

\* places at which a directory stands in the batches
places(leaf) == {ij \in (DOMAIN batches) \X (DOMAIN leaves) :
                    ij[2] \in DOMAIN batches[ij[1]] /\ batches[ij[1]][ij[2]] = leaf}

\* number of subjects whose directories went into a batch
subjects_in(batch) ==
    Cardinality({k \in DOMAIN subject_dirs : Range(subject_dirs[k]) \subseteq Range(batch)})

\* run_importer has got past get_import_parms and handed out the batches
dispatched == run_id > 0 /\ import_parms

\* C15: the batches handed out at start hold every enumerated DICOM directory
\* at exactly one place, and nothing else.
C15_BatchesPartitionLeaves ==
    dispatched =>
        /\ \A leaf \in Range(leaves) : Cardinality(places(leaf)) = 1
        /\ \A i \in DOMAIN batches : Range(batches[i]) \subseteq Range(leaves)

C15_Witness ==
    /\ dispatched
    /\ Len(subject_dirs) = 6
    /\ Len(leaves) = 9
    /\ Len(batches) = 4
    /\ Len(batches[1]) = 4

C18_PartitionIsStable == dispatched => flatten(batches) = leaves

C18_Witness ==
    /\ dispatched
    /\ Len(subject_dirs) = 5
    /\ Len(batches) = 4
    /\ subjects_in(batches[1]) = 2
    /\ flatten(batches) = leaves
    /\ Len(leaves) = 7

\* the run has consolidated normally, without a stop, every conversion of
\* every worker succeeded and the analysis directory was there
all_succeeded == n_postprocessing = 1 /\ ~stop_requested /\ ~any_failed /\ study_dir_found

log_files == written \cap {"Import_Log.log", "Import_Log_backup.log"}

quiescent == queue = <<>> /\ \A w \in Workers : pc[w] \in {"unborn", "finished"}

\* C20 (as claimed): a run that got a valid plan and has nothing left to do
\* has consolidated, normally or after a stop, and the run button is enabled
\* again, whatever the number of DICOM directories found.
C20_StartedRunEndsDone ==
    (dispatched /\ quiescent) =>
        /\ n_postprocessing + n_postterminate = 1
        /\ btn_run_importer

\* the same for the trees with at least one subject: the case that is left
\* when run_importer gets past divide
StartedRunEndsDone_nonempty ==
    (dispatched /\ quiescent /\ subject_dirs # <<>>) =>
        /\ n_postprocessing + n_postterminate = 1
        /\ btn_run_importer

\* ------------------------------------------------ validation of the plan
\* a Blank lineedit before one that holds a label
interior_blank(dirnames) ==
    \E i, j \in DOMAIN dirnames : i < j /\ dirnames[i] = "" /\ dirnames[j] # ""

\* the last run request ended in get_import_parms without a plan and without
\* an attempt to write ImportConfig.json
validation_failed ==
    run_id > 0 /\ parms_status \in {"None", "raise"} /\ import_config # "denied"

\* C21 (as claimed): whenever the validation of the plan fails, no worker is
\* created, the counter of outstanding workers stays 0, ImportConfig.json is
\* not written and the input controls are enabled again.
C21_ValidationFailureSurfaced ==
    validation_failed =>
        /\ spawned = {}
        /\ n_import_workers = 0
        /\ import_config # "written"
        /\ widgets_enabled
        /\ btn_run_importer

\* C23 (as claimed): a run requested with a Blank lineedit before a labelled
\* one ends with the failure result of get_import_parms (None), no worker and
\* the controls enabled again.
C23_InteriorBlankIsConsumable ==
    (run_id > 0 /\ interior_blank(levels)) =>
        /\ parms_status = "None"
        /\ spawned = {}
        /\ widgets_enabled
        /\ btn_run_importer

\* C30 (as claimed): when ImportConfig.json cannot be written the plan is
\* still returned and the workers of the run are created.
C30_WriteFailureIsWarning ==
    (run_id > 0 /\ import_config = "denied") =>
        /\ import_parms
        /\ plan # NoPlan
        /\ (subject_dirs # <<>> => spawned # {})

\* ------------------------------------------------------ the built plan
\* a step in which get_import_parms was called and ended otherwise than before
built == plan_vars' # plan_vars

\* the non-blank lineedits are the first ones
contiguous(dirnames) ==
    \A i, j \in DOMAIN dirnames : i < j /\ dirnames[j] # "" => dirnames[i] # ""

\* the lineedits up to the last non-blank one
without_trailing_blanks(dirnames) ==
    LET nonblank == {i \in DOMAIN dirnames : dirnames[i] # ""} IN
    SubSeq(dirnames, 1, Cardinality(nonblank))

\* C22: for a template whose non-blank lineedits are the first ones, the
\* template check of get_import_parms passes exactly when Subject and Scan are
\* both in it, and the Directory Structure of a plan built from it is the
\* template without its trailing blanks, in the same order.
C22_TemplateCheck ==
    [][ contiguous(levels) =>
          /\ get_directory_structure(levels).status = "True"
                <=> {"Subject", "Scan"} \subseteq Range(levels)
          /\ (built /\ parms_status' = "parms")
                => plan'.DirectoryStructure = without_trailing_blanks(levels) ]_vars

C22_Witness ==
    /\ parms_status = "parms"
    /\ contiguous(levels)
    /\ "Dummy" \in Range(levels)
    /\ Len(plan.DirectoryStructure) \in 3..6
    /\ plan.DirectoryStructure = without_trailing_blanks(levels)
    /\ plan.DirectoryStructure[1] # "Subject"

\* C24 (as claimed): get_import_parms fails whenever the Subject or the Scan
\* regex is empty or was never populated, so that no plan built carries None
\* or the empty string as the Subject or Scan pattern of its Regex triplet.
C24_NoNullPatternInPlan ==
    parms_status = "parms" =>
        /\ plan.Regex[1] \notin {"None", ""}
        /\ plan.Regex[3] \notin {"None", ""}

\* the numbers shown by the comboboxes of the run rows are pairwise distinct
distinct_orders == Cardinality(Range(run_orders)) = Len(run_orders)

\* C25: get_import_parms builds no plan from run rows of which two show the
\* same number; rows with pairwise distinct numbers pass the run-alias check
\* (a plan is built when the template and the regexes are valid and the file
\* can be written), and the numbers of the rows a plan was built from are a
\* permutation of 1..k.
C25_DuplicateOrderRejected ==
    [][ built =>
          /\ ~distinct_orders => parms_status' = "None" \/ parms_status' = "raise"
          /\ distinct_orders => get_run_aliases.status
          /\ ( /\ distinct_orders
               /\ get_directory_structure(levels).status = "True"
               /\ subject_regex # "" /\ scan_regex # ""
               /\ import_config' # "denied" ) => parms_status' = "parms"
          /\ parms_status' = "parms" =>
                /\ Range(run_orders) = {str(num) : num \in 1..Len(run_orders)}
                /\ Len(plan'.RunAliases) = Len(run_orders) ]_vars

\* get_import_parms returned None for two rows that both show 1, everything
\* else being valid
C25_Witness ==
    /\ parms_status = "None"
    /\ run_orders = <<"1", "1">>
    /\ get_directory_structure(levels).status = "True"
    /\ subject_regex = "regex"
    /\ scan_regex = "regex"

\* C29: registering the run directories gives one row per basename, with blank
\* alias and the number of its position (1..k); a plan built from the rows has
\* exactly the basenames of the rows as keys of its Ordered Run Aliases, in
\* ascending number of their rows, the row numbered n mapped to "ASL_n" when
\* its alias is blank and to its alias otherwise.
C29_RunRowsAndOrderedAliases ==
    [][ /\ run_basenames' # run_basenames =>
            /\ Range(run_basenames') = Range(run_dirs)
            /\ Len(run_basenames') = Cardinality(Range(run_dirs))
            /\ run_basenames' \in list_of_set(run_dirs)
            /\ \A ii \in DOMAIN run_basenames' :
                  run_orders'[ii] = str(ii) /\ le_runaliases'[ii] = ""
        /\ (built /\ parms_status' = "parms") =>
            LET aliases == plan'.RunAliases IN
            /\ Len(aliases) = Len(run_basenames)
            /\ {aliases[num][1] : num \in DOMAIN aliases} = Range(run_basenames)
            /\ \A num \in DOMAIN aliases :
                  \E idx \in DOMAIN run_basenames :
                      /\ run_basenames[idx] = aliases[num][1]
                      /\ run_orders[idx] = str(num)
                      /\ aliases[num][2] = IF le_runaliases[idx] = "" THEN ASL_(num)
                                           ELSE le_runaliases[idx] ]_vars

\* a plan built from two rows whose numbers were swapped, the first row
\* without alias and the second with one
C29_Witness ==
    /\ parms_status = "parms"
    /\ Len(run_basenames) = 2
    /\ run_orders = <<"2", "1">>
    /\ le_runaliases = <<"", "x">>
    /\ plan.RunAliases = <<<<run_basenames[2], "x">>, <<run_basenames[1], "ASL_2">>>>

\* ----------------------------------------------------- aliases of the plan
\* the scan roles that have an alias
aliased == {key \in ScanRoles : scan_aliases[key] # "None"}

\* the run rows pass the test of is_ready_import (lines 566-577)
rows_ready ==
    LET current_run_aliases == SelectSeq(le_runaliases, LAMBDA text : text # "") IN
    /\ Cardinality(Range(current_run_aliases)) = Len(current_run_aliases)
    /\ distinct_orders

\* C26 (as claimed): no plan is built from run rows of which two carry the
\* same non-empty alias.
C26_NoPlanWithSharedAlias ==
    [][ (built /\ parms_status' = "parms") =>
          LET chosen == SelectSeq(le_runaliases, LAMBDA text : text # "") IN
          Cardinality(Range(chosen)) = Len(chosen) ]_vars

\* C27 (as claimed): whenever a scan combobox changes, the run button is
\* disabled if no scan role has an alias, and it is enabled if at least one
\* role has an alias and nothing else is wrong; no plan is built while no role
\* has an alias.
C27_GateFollowsScanAliases ==
    [][ /\ cmb_scanaliases' # cmb_scanaliases =>
            /\ aliased' = {} => ~btn_run_importer'
            /\ (aliased' # {} /\ rows_ready) => btn_run_importer'
        /\ (built /\ parms_status' = "parms") => aliased # {} ]_vars

\* C28 (as claimed): the scan aliases of a built plan are non-empty and
\* pairwise distinct: no two roles map to the same basename.
C28_ScanAliasesDistinct ==
    parms_status = "parms" =>
        \A k1, k2 \in DOMAIN plan.ScanAliases :
            /\ plan.ScanAliases[k1] # ""
            /\ k1 # k2 => plan.ScanAliases[k1] # plan.ScanAliases[k2]

run_in_progress == dispatched /\ n_import_workers > 0

\* C36 (as claimed): while a run is in progress the run button stays
\* disabled, whatever is edited in the window during the run.
C36_NoSecondRunDuringRun ==
    run_in_progress => ~btn_run_importer

\* C38 (as claimed): the value of the progress bar never exceeds its maximum,
\* the number of DICOM directories of the run, and it equals the maximum once
\* import_postprocessing has run.
C38_ProgressReachesMaximum ==
    /\ progbar_value <= progbar_maximum
    /\ (dispatched /\ n_postprocessing > 0) => progbar_value = progbar_maximum

\* C37 (as claimed): the Ordered Run Aliases of a built plan give distinct
\* aliases to distinct basenames, also when a typed alias has the form ASL_n.
C37_RunAliasesInjective ==
    parms_status = "parms" =>
        \A m, n \in DOMAIN plan.RunAliases :
            m # n => plan.RunAliases[m][2] # plan.RunAliases[n][2]

\* C40 (as claimed): run_importer starts every run with empty accumulators
\* and the workers it creates have _terminated False, and nothing of an
\* earlier run reaches a later one: a later run in which every conversion
\* succeeded records no failure.
C40_RunsAreIndependent ==
    [][ /\ run_id' = run_id + 1 =>
            /\ import_summaries' = <<>>
            /\ failed_runs' = <<>>
            /\ \A w \in spawned' : ~terminated'[w]
        /\ (run_id' > 1 /\ ~any_failed') => failed_runs' = <<>> ]_vars

\* ------------------------------------------------- merging of directories
\* merge_directories over a merge_root that holds files of its own
MergeInit ==
    /\ merge_root \in [MergePaths -> {Absent, Foreign}]
    /\ merge_call = NoCall
    /\ InitUI({<<"Subject", "Visit", "Run", "Scan", "", "", "">>})
    /\ InitWindow({<<<<1>>>>})
    /\ NoDrop

MergeNext ==
    \/ MergeDirectories
    \/ CreateFile

SpecMerge == MergeInit /\ [][MergeNext]_vars

\* the files the roots of a call hold at a path, in the order of the call
sources(path, roots) == SelectSeq(roots, LAMBDA root : path \in RootFiles[root])

\* C35 (as claimed): a merge_directories call with overwrite=False leaves
\* every path that exists under merge_root as it was, with symbolic=True and
\* with symbolic=False; a call with overwrite=True replaces every existing
\* file path that one of the roots holds.
C35_OverwriteFlagObeyed ==
    [][ merge_call'.called =>
          \A path \in MergePaths :
              exists(merge_root[path]) =>
                  IF merge_call'.overwrite
                  THEN sources(path, merge_call'.roots) # <<>> =>
                          merge_root'[path].of \in Range(sources(path, merge_call'.roots))
                  ELSE merge_root'[path] = merge_root[path] ]_vars

\* ------------------------------------------- the directory structure fields
\* the window as __init__ leaves it: no raw directory, seven blank lineedits,
\* no regex, no run rows, every scan combobox at "Select an alias"
DropInit ==
    /\ levels = NoLabels
    /\ subject_regex = "None"
    /\ visit_regex = "None"
    /\ run_regex = "None"
    /\ scan_regex = "None"
    /\ run_dirs = <<>>
    /\ run_basenames = <<>>
    /\ le_runaliases = <<>>
    /\ run_orders = <<>>
    /\ cmb_scanaliases = [key \in ScanRoles |-> NoAlias]
    /\ cmb_scanitems = <<>>
    /\ scan_aliases = [key \in ScanRoles |-> "None"]
    /\ le_rootdir = ""
    /\ rawdir_exists = FALSE
    /\ globbed = NoListing
    /\ drop_event = NoEvent
    /\ InitWindow({<<<<1>>>>})
    /\ NoMerge

DropNext ==
    \/ DropLabel
    \/ ClearReceivers
    \/ ChangeRootDir
    \/ RawDirVanishes
    \/ RawDirReturns
    \/ PickScanAlias

SpecDrop == DropInit /\ [][DropNext]_vars

\* the lineedits that hold a label
slots_of(label) == {level \in 1..7 : levels[level] = label}

\* C32 (as claimed): every label other than Blank, Dummy included, is in at
\* most one of the seven lineedits.
C32_EveryLabelAtMostOnce ==
    \A label \in DragLabels : Cardinality(slots_of(label)) <= 1

\* C32 (amended): Subject, Visit, Run and Scan are each in at most one of the
\* seven lineedits after any drops and clears; Dummy, which the drop test
\* lets through whatever the other lineedits hold, can be in several.
C32_RolesAtMostOnce ==
    \A label \in DragLabels \ {"Dummy"} : Cardinality(slots_of(label)) <= 1

C32_Witness ==
    /\ Cardinality(slots_of("Dummy")) = 2
    /\ Cardinality(slots_of("Subject")) = 1
    /\ subject_regex = "regex"

\* C33 (as claimed): the list handed to the pattern extractor is the
\* normalised form of the set of basenames (no name twice, the names in
\* order), so that every ordering and duplication of the same names gives
\* the extractor the same input.
C33_ExtractorInputNormalised ==
    drop_event.inferred => drop_event.examples = sorted(Range(drop_event.examples))

\* C34 (as claimed): a drop on a lineedit whose depth has no directory shows
\* the message, leaves that lineedit blank and neither sets nor changes the
\* regex and the alias table of the dropped role.
C34_EmptyDepthChangesNothing ==
    [][ drop_event'.message = "ImpossibleDirDepth" =>
          /\ levels'[drop_event'.level] = ""
          /\ drop_event'.label = "Subject" => subject_regex' = subject_regex
          /\ drop_event'.label = "Visit" => visit_regex' = visit_regex
          /\ drop_event'.label = "Run" =>
                /\ run_regex' = run_regex
                /\ <<run_basenames, le_runaliases, run_orders>>' =
                      <<run_basenames, le_runaliases, run_orders>>
          /\ drop_event'.label = "Scan" =>
                /\ scan_regex' = scan_regex
                /\ <<cmb_scanaliases, cmb_scanitems, scan_aliases>>' =
                      <<cmb_scanaliases, cmb_scanitems, scan_aliases>> ]_vars

\* C39 (as claimed): a role that is in none of the seven lineedits has no
\* regex; without Run there is no run row, without Scan every scan alias is
\* None.
C39_DerivedStateOnlyWhileInTemplate ==
    /\ slots_of("Subject") = {} => subject_regex = "None"
    /\ slots_of("Visit") = {} => visit_regex = "None"
    /\ slots_of("Run") = {} => run_regex = "None" /\ run_basenames = <<>>
    /\ slots_of("Scan") = {} =>
          /\ scan_regex = "None"
          /\ \A key \in ScanRoles : scan_aliases[key] = "None"

====
